---- MODULE Spec2Model ----
(***************************************************************************)
(* Time-weighted price oracle (src/src/oracle.rs): the sub-minute          *)
(* accumulator SubObservations, the minute-level ring of accumulated      *)
(* observations, and the query surface (exact lookup, binary search with   *)
(* linear interpolation, live extrapolation).                              *)
(*                                                                         *)
(* Numbers.  An Instant is its number of seconds since the epoch.  A       *)
(* PreciseDecimal is the integer count of its smallest unit, here 1/100;   *)
(* a Decimal is the integer count of its smallest unit, here 1/10.  The    *)
(* real types carry 36 and 18 fractional digits; every operation keeps the *)
(* rounding direction of the real one (division truncates toward zero, ln  *)
(* is truncated toward negative infinity).                                 *)
(***************************************************************************)
EXTENDS Integers, Sequences, FiniteSets, TLC

\* ------------------------------------------------------------------ bounds
MaxLimit == 3        \* observations_limit is drawn from 1..MaxLimit
MaxMinute == 6       \* last minute of the clock, one instant per minute
MaxFineMinute == 3   \* last minute of the clock, sub-minute instants
MaxFineObserves == 4 \* observe calls in a run over sub-minute instants
WideLimit == 22000   \* observations_limit of the wide ring (the key type takes up to 65535)
WideMinutes == 2     \* minutes the clock of the wide ring runs on for
MaxIntervalMinute == 4 \* last minute of the clock when intervals are asked for
MaxFaultMinute == 3  \* last minute of the clock when a zero price is reported
MaxHookMinute == 2   \* last minute of the clock when the hook's methods are called
SearchLimit == 5     \* observations_limit of the ring whose searches are followed
MaxSearchMinute == 8 \* last minute of the clock of that ring

\* price_sqrt values passed to observe (units of 1/100): 0.60 and 2.50
Prices == {60, 250}
\* second-offsets within a minute the clock is sampled at
SecondOffsets == {0, 20, 45}
\* price_sqrt values passed to observe when the pool may report a zero price
FaultPrices == {0, 250}
\* timestamps (seconds) the intervals asked of observation_intervals are made
\* of: two seconds of minute 1, minutes 3 and 4
IntervalEnds == {97, 100, 180, 250}

\* ------------------------------------------------------------ Option<T>
None == <<>>
Some(x) == <<x>>
IsSome(o) == o /= <<>>
Unwrap(o) == o[1]

Min(a, b) == IF a <= b THEN a ELSE b

\* ------------------------------------------------- Instant / Clock contract
minutes(instant) == instant \div 60
seconds_marginal(instant) == instant % 60
current_time_rounded_to_minutes(now) == (now \div 60) * 60
time_in_minutes(now) == now \div 60

\* ------------------------------------------------------- decimal arithmetic
\* Division of a decimal by an unsigned integer: truncated toward zero at the
\* last digit of the type.
TruncDiv(a, b) == IF a >= 0 THEN a \div b ELSE -((-a) \div b)

\* LnThreshold[i] is the least PreciseDecimal x (units of 1/100) with
\* ln(x) >= (i - 9) / 10, i.e. ceil(100 * e^((i - 9) / 10)).
LnThreshold ==
  << 45, 50, 55, 61, 68, 75, 82, 91, 100, 111, 123, 135, 150, 165, 183, 202,
     223, 246, 272, 301, 333 >>

\* ln(x) truncated toward negative infinity to Decimal precision (units of
\* 1/10), for 0.45 <= x < 3.68; ln of a non-positive number does not exist.
LnDefined(x) == x > 0
FloorLn(x) == Cardinality({i \in DOMAIN LnThreshold : LnThreshold[i] <= x}) - 9

\* ExpTable[x + 10] is e^(x / 10) truncated to Decimal precision (units of
\* 1/10), for the exponents -0.9 .. 1.2 that FloorLn can return.
ExpTable ==
  << 4, 4, 4, 5, 6, 6, 7, 8, 9, 10, 11, 12, 13, 14, 16, 18, 20, 22, 24, 27, 30, 33 >>

ExpDefined(x) == x + 10 \in DOMAIN ExpTable
Exp(x) == ExpTable[x + 10]

\* --------------------------------------------------------- SubObservations
SubObservations_new(now) ==
  [ last_updated |-> now,
    initialization |-> Some(now),
    price_sqrt_sum |-> 0,
    price_sqrt_last |-> 0 ]

\* new_subobservation, weighting the elapsed seconds with the new price
new_subobservation_new_price(s, now, price_sqrt) ==
  LET acc == IF now /= s.last_updated
             THEN [s EXCEPT
                     !.price_sqrt_sum = @ + price_sqrt
                         * (seconds_marginal(now) - seconds_marginal(s.last_updated)),
                     !.last_updated = now]
             ELSE s
  IN [acc EXCEPT !.price_sqrt_last = price_sqrt]

\* new_subobservation, ignoring a price reported in the second of the last update
new_subobservation_first_wins(s, now, price_sqrt) ==
  IF now /= s.last_updated
  THEN [s EXCEPT
          !.price_sqrt_sum = @ + s.price_sqrt_last
              * (seconds_marginal(now) - seconds_marginal(s.last_updated)),
          !.last_updated = now,
          !.price_sqrt_last = price_sqrt]
  ELSE s

\* the unsigned subtraction of the second-offsets does not underflow
new_subobservation_ok(s, now) ==
  now /= s.last_updated => seconds_marginal(now) >= seconds_marginal(s.last_updated)

new_subobservation(s, now, price_sqrt) ==
  LET acc == IF now /= s.last_updated
             THEN [s EXCEPT
                     !.price_sqrt_sum = @ + s.price_sqrt_last
                         * (seconds_marginal(now) - seconds_marginal(s.last_updated)),
                     !.last_updated = now]
             ELSE s
  IN [acc EXCEPT !.price_sqrt_last = price_sqrt]

price_sqrt_average(s, duration) ==
  LET delta_marginal_seconds == 60 - seconds_marginal(s.last_updated)
      price_sqrt_sum == s.price_sqrt_sum + s.price_sqrt_last * delta_marginal_seconds
  IN TruncDiv(price_sqrt_sum, duration)

\* finalize: the average it returns and the accumulator it leaves behind
finalize_duration(s) ==
  IF IsSome(s.initialization)
  THEN 60 - seconds_marginal(Unwrap(s.initialization))
  ELSE 60

\* finalize, averaging the sum as the last update left it
finalize_value_no_tail(s) == TruncDiv(s.price_sqrt_sum, finalize_duration(s))

finalize_value(s) == price_sqrt_average(s, finalize_duration(s))

\* finalize, reading initialization without taking it
finalize_state_initialization_kept(s, now) ==
  [s EXCEPT !.last_updated = current_time_rounded_to_minutes(now),
            !.price_sqrt_sum = 0]

\* finalize, clearing the last price with the sum
finalize_state_price_cleared(s, now) ==
  [s EXCEPT !.initialization = None,
            !.last_updated = current_time_rounded_to_minutes(now),
            !.price_sqrt_sum = 0,
            !.price_sqrt_last = 0]

\* finalize, leaving last_updated where the closed minute left it
finalize_state_clock_kept(s, now) ==
  [s EXCEPT !.initialization = None,
            !.price_sqrt_sum = 0]

finalize_state(s, now) ==
  [s EXCEPT !.initialization = None,
            !.last_updated = current_time_rounded_to_minutes(now),
            !.price_sqrt_sum = 0]

\* finalize_preview, leaving out the seconds after the last update
finalize_preview_no_tail(s) == TruncDiv(s.price_sqrt_sum, 60)

finalize_preview_ok(s) == s.initialization = None
finalize_preview(s) == price_sqrt_average(s, 60)

\* finalize_preview, resetting the sub-observer as finalize does
finalize_preview_state_reset(s) ==
  [s EXCEPT !.initialization = None,
            !.last_updated = (s.last_updated \div 60) * 60,
            !.price_sqrt_sum = 0]

\* the sub-observer as finalize_preview leaves it (the receiver is &self)
finalize_preview_state(s) == s

\* ------------------------------------------------------------------ helpers
accumulated_log_ok(finalized, last_value, minutes_since_last) ==
  /\ LnDefined(finalized)
  /\ LnDefined(last_value)
  /\ minutes_since_last >= 1

\* accumulated_log, counting the closed minute among the minutes without swaps
accumulated_log_every_minute(acc_value, finalized, last_value, minutes_since_last) ==
  acc_value + FloorLn(finalized) + minutes_since_last * FloorLn(last_value)

\* accumulated_log, not adding to the accumulator it is given
accumulated_log_restarting(acc_value, finalized, last_value, minutes_since_last) ==
  FloorLn(finalized) + (minutes_since_last - 1) * FloorLn(last_value)

accumulated_log(acc_value, finalized, last_value, minutes_since_last) ==
  acc_value + FloorLn(finalized) + (minutes_since_last - 1) * FloorLn(last_value)

linear_interpolation(x_left, x_right, y_left, y_right, x_target) ==
  LET slope == TruncDiv(y_right - y_left, x_right - x_left)
  IN y_left + slope * (x_target - x_left)

AccumulatedObservation(t, acc) == [timestamp |-> t, price_sqrt_log_acc |-> acc]

\* ------------------------------------------------------------------- Oracle
\* the ring's keys, index and counters are u16; an addition that leaves the u16
\* range panics (overflow checks on, as blueprint packages are built)
U16Max == 65535

Oracle_new(observations_limit) ==
  [ observations |-> [k \in {} |-> 0],
    observations_stored |-> 0,
    last_observation_index |-> None,
    sub_observations |-> None,
    observations_limit |-> observations_limit ]

\* the newest stored observation (callers hold observations_stored > 0)
last_observation(o) == o.observations[Unwrap(o.last_observation_index)]

\* create_observation, stamping the observation with the minute after
create_observation_minute_ahead(o, now) ==
  LET now_minutes == time_in_minutes(now)
      sub == Unwrap(o.sub_observations)
      minutes_since_last == now_minutes - minutes(sub.last_updated)
      finalized == finalize_value(sub)
      after == finalize_state(sub, now)
  IN IF o.observations_stored = 0
     THEN AccumulatedObservation(now_minutes + 1,
            accumulated_log(0, finalized, after.price_sqrt_last, minutes_since_last))
     ELSE AccumulatedObservation(now_minutes + 1,
            accumulated_log(last_observation(o).price_sqrt_log_acc, finalized,
                            after.price_sqrt_last, minutes_since_last))

\* create_observation: the observation it returns ...
create_observation(o, now) ==
  LET now_minutes == time_in_minutes(now)
      sub == Unwrap(o.sub_observations)
      minutes_since_last == now_minutes - minutes(sub.last_updated)
      finalized == finalize_value(sub)
      after == finalize_state(sub, now)
  IN IF o.observations_stored = 0
     THEN AccumulatedObservation(now_minutes,
            accumulated_log(0, finalized, after.price_sqrt_last, minutes_since_last))
     ELSE AccumulatedObservation(now_minutes,
            accumulated_log(last_observation(o).price_sqrt_log_acc, finalized,
                            after.price_sqrt_last, minutes_since_last))

\* ... the panics on its way (u64 underflow, ln of a non-positive number) ...
create_observation_ok(o, now) ==
  LET sub == Unwrap(o.sub_observations)
  IN /\ time_in_minutes(now) >= minutes(sub.last_updated)
     /\ accumulated_log_ok(finalize_value(sub), sub.price_sqrt_last,
                           time_in_minutes(now) - minutes(sub.last_updated))

\* ... and the oracle it leaves behind (finalize has reset the sub-observer)
create_observation_state(o, now) ==
  [o EXCEPT !.sub_observations = Some(finalize_state(Unwrap(o.sub_observations), now))]

\* insert_index, wrapping one slot late
insert_index_late_wrap(o) ==
  IF o.last_observation_index = None
  THEN 0
  ELSE IF Unwrap(o.last_observation_index) + 1 > o.observations_limit
  THEN 0
  ELSE Unwrap(o.last_observation_index) + 1

\* insert_index, starting the ring at slot 1
insert_index_from_one(o) ==
  IF o.last_observation_index = None
  THEN 1 % o.observations_limit
  ELSE (Unwrap(o.last_observation_index) + 1) % o.observations_limit

insert_index(o) ==
  IF o.last_observation_index = None
  THEN 0
  ELSE (Unwrap(o.last_observation_index) + 1) % o.observations_limit

\* u16 additions stay in range
insert_observation_ok(o) ==
  /\ o.last_observation_index /= None => Unwrap(o.last_observation_index) + 1 <= U16Max
  /\ o.observations_stored + 1 <= U16Max

\* insert_observation, counting past the capacity
insert_observation_unbounded(o, observation) ==
  [o EXCEPT
     !.last_observation_index = Some(insert_index(o)),
     !.observations = (insert_index(o) :> observation) @@ o.observations,
     !.observations_stored = o.observations_stored + 1]

\* insert_observation, counting only from the second observation on
insert_observation_count_late(o, observation) ==
  [o EXCEPT
     !.last_observation_index = Some(insert_index(o)),
     !.observations = (insert_index(o) :> observation) @@ o.observations,
     !.observations_stored = IF o.last_observation_index = None
                             THEN o.observations_stored
                             ELSE Min(o.observations_stored + 1, o.observations_limit)]

\* insert_observation, keeping the new slot alone in the store
insert_observation_store_anew(o, observation) ==
  [o EXCEPT
     !.last_observation_index = Some(insert_index(o)),
     !.observations = (insert_index(o) :> observation),
     !.observations_stored = Min(o.observations_stored + 1, o.observations_limit)]

insert_observation(o, observation) ==
  [o EXCEPT
     !.last_observation_index = Some(insert_index(o)),
     !.observations = (insert_index(o) :> observation) @@ o.observations,
     !.observations_stored = Min(o.observations_stored + 1, o.observations_limit)]

\* observe storing an observation whenever the clock has left the instant of
\* the sub-observer
observe_crosses_instant(o, now) ==
  /\ o.sub_observations /= None
  /\ now /= Unwrap(o.sub_observations).last_updated

\* observe stores an observation iff the sub-observer exists and the clock has
\* left its minute
observe_crosses(o, now) ==
  /\ o.sub_observations /= None
  /\ minutes(now) /= minutes(Unwrap(o.sub_observations).last_updated)

observe_ok(o, now, price_sqrt) ==
  IF o.sub_observations = None
  THEN TRUE
  ELSE IF observe_crosses(o, now)
  THEN /\ create_observation_ok(o, now)
       /\ insert_observation_ok(o)
       /\ new_subobservation_ok(finalize_state(Unwrap(o.sub_observations), now), now)
  ELSE new_subobservation_ok(Unwrap(o.sub_observations), now)

\* observe, storing an observation on every call after the first
observe_every_call(o, now, price_sqrt) ==
  LET o1 == IF o.sub_observations = None
            THEN [o EXCEPT !.sub_observations = Some(SubObservations_new(now))]
            ELSE insert_observation(create_observation_state(o, now),
                                    create_observation(o, now))
  IN [o1 EXCEPT !.sub_observations =
        Some(new_subobservation(Unwrap(o1.sub_observations), now, price_sqrt))]

\* observe, handing the new price to the sub-observer before the minute is
\* closed
observe_price_first(o, now, price_sqrt) ==
  LET fed == IF o.sub_observations = None
             THEN [o EXCEPT !.sub_observations = Some(SubObservations_new(now))]
             ELSE [o EXCEPT !.sub_observations =
                     Some([Unwrap(o.sub_observations) EXCEPT !.price_sqrt_last = price_sqrt])]
      o1 == IF observe_crosses(o, now)
            THEN insert_observation(create_observation_state(fed, now),
                                    create_observation(fed, now))
            ELSE IF o.sub_observations = None THEN fed ELSE o
  IN [o1 EXCEPT !.sub_observations =
        Some(new_subobservation(Unwrap(o1.sub_observations), now, price_sqrt))]

observe(o, now, price_sqrt) ==
  LET o1 == IF o.sub_observations = None
            THEN [o EXCEPT !.sub_observations = Some(SubObservations_new(now))]
            ELSE IF observe_crosses(o, now)
            THEN insert_observation(create_observation_state(o, now),
                                    create_observation(o, now))
            ELSE o
  IN [o1 EXCEPT !.sub_observations =
        Some(new_subobservation(Unwrap(o1.sub_observations), now, price_sqrt))]

\* the fields of the Oracle at the point where observe panics (callers hold
\* ~observe_ok): finalize has reset the sub-observer before accumulated_log
\* takes the logarithms, and insert_observation has moved the index and written
\* the slot before it adds to observations_stored
observe_unwound(o, now, price_sqrt) ==
  IF ~observe_crosses(o, now)
  THEN o
  ELSE IF time_in_minutes(now) < minutes(Unwrap(o.sub_observations).last_updated)
  THEN o
  ELSE IF ~create_observation_ok(o, now)
  THEN create_observation_state(o, now)
  ELSE IF /\ o.last_observation_index /= None
          /\ Unwrap(o.last_observation_index) + 1 > U16Max
  THEN create_observation_state(o, now)
  ELSE IF o.observations_stored + 1 > U16Max
  THEN [create_observation_state(o, now) EXCEPT
          !.last_observation_index = Some(insert_index(o)),
          !.observations = (insert_index(o) :> create_observation(o, now)) @@ o.observations]
  ELSE insert_observation(create_observation_state(o, now), create_observation(o, now))

\* oldest_index, pointing at the newest slot
oldest_index_newest(o) ==
  IF o.last_observation_index = None
  THEN None
  ELSE Some(Unwrap(o.last_observation_index) % o.observations_stored)

\* oldest_index, wrapping at the capacity instead of the count
oldest_index_limit(o) ==
  IF o.last_observation_index = None
  THEN None
  ELSE Some((Unwrap(o.last_observation_index) + 1) % o.observations_limit)

oldest_index(o) ==
  IF o.last_observation_index = None
  THEN None
  ELSE Some((Unwrap(o.last_observation_index) + 1) % o.observations_stored)

oldest_observation_timestamp_minutes(o) ==
  IF oldest_index(o) = None
  THEN None
  ELSE IF Unwrap(oldest_index(o)) \in DOMAIN o.observations
  THEN Some(o.observations[Unwrap(oldest_index(o))].timestamp)
  ELSE None

oldest_observation_timestamp(o) ==
  IF oldest_observation_timestamp_minutes(o) = None
  THEN None
  ELSE Some(Unwrap(oldest_observation_timestamp_minutes(o)) * 60)

\* The loop of binary_search_and_interpolation from the pair (left, right) on;
\* None is a panic (u16 overflow of left + right, or a missing slot).
RECURSIVE binary_search_loop(_, _, _, _, _)
binary_search_loop(observations, observations_stored, left, right, target_timestamp) ==
  IF left + right > U16Max
  THEN None
  ELSE
  LET mid == (left + right) \div 2
      index_mid == mid % observations_stored
      index_right == right % observations_stored
  IN IF index_mid \notin DOMAIN observations
     THEN None
     ELSE LET observation_mid == observations[index_mid]
          IN IF observation_mid.timestamp = target_timestamp
             THEN Some(observation_mid)
             ELSE IF mid = left
             THEN IF index_right \notin DOMAIN observations
                  THEN None
                  ELSE LET observation_right == observations[index_right]
                       IN IF observation_right.timestamp = target_timestamp
                          THEN Some(observation_right)
                          ELSE IF observation_right.timestamp < observation_mid.timestamp
                                  \/ observation_right.timestamp = observation_mid.timestamp
                          THEN None
                          ELSE Some(AccumulatedObservation(target_timestamp,
                                 linear_interpolation(observation_mid.timestamp,
                                                      observation_right.timestamp,
                                                      observation_mid.price_sqrt_log_acc,
                                                      observation_right.price_sqrt_log_acc,
                                                      target_timestamp)))
             ELSE IF observation_mid.timestamp < target_timestamp
             THEN binary_search_loop(observations, observations_stored, mid, right,
                                     target_timestamp)
             ELSE binary_search_loop(observations, observations_stored, left, mid,
                                     target_timestamp)

\* One pass of that loop from the pair (left, right): how it leaves the loop
\* ("found": the slot at mid has the target; "adjacent": mid == left; "panic":
\* left + right leaves the u16 range; "none": it goes round again) and the pair
\* it goes on with. The first variant goes round again where mid == left.
binary_search_pass_no_guard(observations, observations_stored, left, right, target_timestamp) ==
  LET mid == (left + right) \div 2
      observation_mid == observations[mid % observations_stored]
  IN IF left + right > U16Max
     THEN [exit |-> "panic", left |-> left, right |-> right]
     ELSE IF observation_mid.timestamp = target_timestamp
     THEN [exit |-> "found", left |-> left, right |-> right]
     ELSE IF observation_mid.timestamp < target_timestamp
     THEN [exit |-> "none", left |-> mid, right |-> right]
     ELSE [exit |-> "none", left |-> left, right |-> mid]

binary_search_pass(observations, observations_stored, left, right, target_timestamp) ==
  LET mid == (left + right) \div 2
      observation_mid == observations[mid % observations_stored]
  IN IF left + right > U16Max
     THEN [exit |-> "panic", left |-> left, right |-> right]
     ELSE IF observation_mid.timestamp = target_timestamp
     THEN [exit |-> "found", left |-> left, right |-> right]
     ELSE IF mid = left
     THEN [exit |-> "adjacent", left |-> left, right |-> right]
     ELSE IF observation_mid.timestamp < target_timestamp
     THEN [exit |-> "none", left |-> mid, right |-> right]
     ELSE [exit |-> "none", left |-> left, right |-> mid]

\* the passes of the loop, at most `passes` of them: the pair each starts
\* from and how it leaves the loop
RECURSIVE binary_search_passes(_, _, _, _, _, _)
binary_search_passes(observations, observations_stored, left, right, target_timestamp, passes) ==
  LET pass == binary_search_pass(observations, observations_stored, left, right,
                                 target_timestamp)
      here == [left |-> left, right |-> right, exit |-> pass.exit]
  IN IF pass.exit /= "none" \/ passes <= 1
     THEN <<here>>
     ELSE <<here>> \o binary_search_passes(observations, observations_stored, pass.left,
                                            pass.right, target_timestamp, passes - 1)

\* the u16 sums of that loop stay in range (the slots it reads exist)
RECURSIVE binary_search_loop_ok(_, _, _, _, _)
binary_search_loop_ok(observations, observations_stored, left, right, target_timestamp) ==
  IF left + right > U16Max
  THEN FALSE
  ELSE
  LET mid == (left + right) \div 2
      observation_mid == observations[mid % observations_stored]
  IN IF observation_mid.timestamp = target_timestamp \/ mid = left
     THEN TRUE
     ELSE IF observation_mid.timestamp < target_timestamp
     THEN binary_search_loop_ok(observations, observations_stored, mid, right,
                                target_timestamp)
     ELSE binary_search_loop_ok(observations, observations_stored, left, mid,
                                target_timestamp)

\* ... and so does left + observations_stored before it
binary_search_and_interpolation_ok(observations, oldest, observations_stored, target_timestamp) ==
  /\ oldest + observations_stored <= U16Max
  /\ binary_search_loop_ok(observations, observations_stored, oldest,
                           oldest + observations_stored - 1, target_timestamp)

\* binary_search_and_interpolation, searching the slots from slot 0
binary_search_unrotated(observations, oldest, observations_stored, target_timestamp) ==
  binary_search_loop(observations, observations_stored, 0, observations_stored - 1,
                     target_timestamp)

binary_search_and_interpolation(observations, oldest, observations_stored, target_timestamp) ==
  IF oldest + observations_stored > U16Max
  THEN None
  ELSE binary_search_loop(observations, observations_stored, oldest,
                          oldest + observations_stored - 1, target_timestamp)

\* observation_internal, answering with AccumulatedObservation::empty() while
\* nothing is stored
observation_internal_or_empty(o, now, target_minutes) ==
  LET now_minutes == time_in_minutes(now)
      oldest_timestamp == oldest_observation_timestamp_minutes(o)
  IN IF oldest_timestamp = None
     THEN Some(AccumulatedObservation(0, 0))
     ELSE IF ~(target_minutes >= Unwrap(oldest_timestamp) /\ target_minutes <= now_minutes)
     THEN None
     ELSE LET last == last_observation(o)
              sub == Unwrap(o.sub_observations)
          IN IF target_minutes = last.timestamp
             THEN Some(last)
             ELSE IF target_minutes > last.timestamp
             THEN IF /\ finalize_preview_ok(sub)
                     /\ accumulated_log_ok(finalize_preview(sub), sub.price_sqrt_last,
                                           target_minutes - last.timestamp)
                  THEN Some(AccumulatedObservation(target_minutes,
                         accumulated_log(last.price_sqrt_log_acc, finalize_preview(sub),
                                         sub.price_sqrt_last,
                                         target_minutes - last.timestamp)))
                  ELSE None
             ELSE binary_search_and_interpolation(o.observations,
                                                  Unwrap(oldest_index(o)),
                                                  o.observations_stored,
                                                  target_minutes)

\* observation_internal: None is a panic, Some(r) the returned observation
observation_internal(o, now, target_minutes) ==
  LET now_minutes == time_in_minutes(now)
      oldest_timestamp == oldest_observation_timestamp_minutes(o)
  IN IF oldest_timestamp = None
     THEN None
     ELSE IF ~(target_minutes >= Unwrap(oldest_timestamp) /\ target_minutes <= now_minutes)
     THEN None
     ELSE LET last == last_observation(o)
              sub == Unwrap(o.sub_observations)
          IN IF target_minutes = last.timestamp
             THEN Some(last)
             ELSE IF target_minutes > last.timestamp
             THEN IF /\ finalize_preview_ok(sub)
                     /\ accumulated_log_ok(finalize_preview(sub), sub.price_sqrt_last,
                                           target_minutes - last.timestamp)
                  THEN Some(AccumulatedObservation(target_minutes,
                         accumulated_log(last.price_sqrt_log_acc, finalize_preview(sub),
                                         sub.price_sqrt_last,
                                         target_minutes - last.timestamp)))
                  ELSE None
             ELSE binary_search_and_interpolation(o.observations,
                                                  Unwrap(oldest_index(o)),
                                                  o.observations_stored,
                                                  target_minutes)

\* observation, returning the timestamp it was asked for
observation_asked_timestamp(o, now, seconds) ==
  LET r == observation_internal(o, now, seconds \div 60)
  IN IF r = None
     THEN None
     ELSE Some([Unwrap(r) EXCEPT !.timestamp = seconds])

observation(o, now, seconds) ==
  LET r == observation_internal(o, now, seconds \div 60)
  IN IF r = None
     THEN None
     ELSE Some([Unwrap(r) EXCEPT !.timestamp = @ * 60])

\* the oracle as observation_internal leaves it (the receiver is &self): of
\* the calls it makes on its fields, the getters of the store and
\* finalize_preview of the sub-observer, reached when the target is later than
\* the newest stored timestamp
observation_internal_state(o, now, target_minutes) ==
  LET now_minutes == time_in_minutes(now)
      oldest_timestamp == oldest_observation_timestamp_minutes(o)
  IN IF oldest_timestamp = None
     THEN o
     ELSE IF ~(target_minutes >= Unwrap(oldest_timestamp) /\ target_minutes <= now_minutes)
     THEN o
     ELSE IF target_minutes > last_observation(o).timestamp
     THEN [o EXCEPT !.sub_observations =
             Some(finalize_preview_state(Unwrap(o.sub_observations)))]
     ELSE o

observation_state(o, now, seconds) == observation_internal_state(o, now, seconds \div 60)

\* arithmetic_mean, not divided by the distance of the two points
arithmetic_mean_undivided(x_left, x_right, y_left, y_right) == y_right - y_left

\* arithmetic_mean and geometric_mean of the slope between two points
arithmetic_mean(x_left, x_right, y_left, y_right) ==
  TruncDiv(y_right - y_left, x_right - x_left)

geometric_mean_ok(x_left, x_right, y_left, y_right) ==
  ExpDefined(arithmetic_mean(x_left, x_right, y_left, y_right))

geometric_mean(x_left, x_right, y_left, y_right) ==
  Exp(arithmetic_mean(x_left, x_right, y_left, y_right))

ObservationInterval(start, end, price_sqrt) ==
  [start |-> start, end |-> end, price_sqrt |-> price_sqrt]

\* one pass of the loop of observation_intervals: the panics on its way ...
interval_ok(o, now, t_left_seconds, t_right_seconds) ==
  LET t_left_minutes == t_left_seconds \div 60
      t_right_minutes == t_right_seconds \div 60
      o_l == observation_internal(o, now, t_left_minutes)
      o_r == observation_internal(o, now, t_right_minutes)
  IN /\ t_left_minutes < t_right_minutes
     /\ o_l /= None
     /\ o_r /= None
     /\ geometric_mean_ok(t_left_minutes, t_right_minutes,
                          Unwrap(o_l).price_sqrt_log_acc, Unwrap(o_r).price_sqrt_log_acc)

\* the entry, bounded by the timestamps as they were asked
interval_entry_as_asked(o, now, t_left_seconds, t_right_seconds) ==
  LET t_left_minutes == t_left_seconds \div 60
      t_right_minutes == t_right_seconds \div 60
      o_l == Unwrap(observation_internal(o, now, t_left_minutes))
      o_r == Unwrap(observation_internal(o, now, t_right_minutes))
  IN ObservationInterval(t_left_seconds, t_right_seconds,
                         geometric_mean(t_left_minutes, t_right_minutes,
                                        o_l.price_sqrt_log_acc, o_r.price_sqrt_log_acc))

\* ... and the entry it pushes
interval_entry(o, now, t_left_seconds, t_right_seconds) ==
  LET t_left_minutes == t_left_seconds \div 60
      t_right_minutes == t_right_seconds \div 60
      o_l == Unwrap(observation_internal(o, now, t_left_minutes))
      o_r == Unwrap(observation_internal(o, now, t_right_minutes))
  IN ObservationInterval(t_left_minutes * 60, t_right_minutes * 60,
                         geometric_mean(t_left_minutes, t_right_minutes,
                                        o_l.price_sqrt_log_acc, o_r.price_sqrt_log_acc))

\* observation_intervals, leaving out the intervals it cannot answer
observation_intervals_skipping(o, now, intervals_in_seconds) ==
  LET ok(i) == interval_ok(o, now, intervals_in_seconds[i][1], intervals_in_seconds[i][2])
      kept == SelectSeq([i \in DOMAIN intervals_in_seconds |-> i], ok)
  IN Some([k \in DOMAIN kept |->
             interval_entry(o, now, intervals_in_seconds[kept[k]][1],
                            intervals_in_seconds[kept[k]][2])])

\* observation_intervals: None is a panic (in any pass of the loop), Some(v)
\* the returned vector
observation_intervals(o, now, intervals_in_seconds) ==
  IF \A i \in DOMAIN intervals_in_seconds :
       interval_ok(o, now, intervals_in_seconds[i][1], intervals_in_seconds[i][2])
  THEN Some([i \in DOMAIN intervals_in_seconds |->
               interval_entry(o, now, intervals_in_seconds[i][1],
                              intervals_in_seconds[i][2])])
  ELSE None

\* the oracle as observation_intervals leaves it: two calls of
\* observation_internal in every pass of the loop, up to the pass whose
\* assertion fails
RECURSIVE observation_intervals_state(_, _, _)
observation_intervals_state(o, now, intervals_in_seconds) ==
  IF intervals_in_seconds = <<>>
  THEN o
  ELSE LET t_left_seconds == Head(intervals_in_seconds)[1]
           t_right_seconds == Head(intervals_in_seconds)[2]
           o_l == observation_internal_state(o, now, t_left_seconds \div 60)
           o_r == observation_internal_state(o_l, now, t_right_seconds \div 60)
       IN IF ~(t_left_seconds \div 60 < t_right_seconds \div 60)
          THEN o
          ELSE observation_intervals_state(o_r, now, Tail(intervals_in_seconds))

\* the getters of the Oracle: what they return and the oracle they leave
Getters == {"observations_limit", "observations_stored", "last_observation_index",
            "oldest_observation_timestamp"}
Oracle_getter(o, method) ==
  CASE method = "observations_limit" -> o.observations_limit
    [] method = "observations_stored" -> o.observations_stored
    [] method = "last_observation_index" -> o.last_observation_index
    [] method = "oldest_observation_timestamp" -> oldest_observation_timestamp(o)
Oracle_getter_state(o, method) == o

\* -------------------------------------------------------------- TestOracle
\* the access rule of every method (enable_method_auth!), with every method
\* public
method_auth_all_public(method) == "PUBLIC"

method_auth(method) ==
  IF method \in {"after_instantiate", "after_swap"}
  THEN "hook_admin"
  ELSE "PUBLIC"

\* the role hook_admin requires the badge minted by instantiate: a call
\* passes when its method is public or the caller shows a proof of the badge
authorized(method, has_proof) ==
  method_auth(method) = "PUBLIC" \/ (method_auth(method) = "hook_admin" /\ has_proof)

\* the capacity instantiate gives the oracle
OBSERVATIONS_LIMIT == 10

\* the fields instantiate gives the component, `oracle` apart
TestOracle_fields ==
  [ calls |-> <<"AfterInstantiate", "AfterSwap">>,
    pool_address |-> None,
    x_address |-> None,
    y_address |-> None,
    last_price_sqrt |-> 0 ]

\* a method's result: the component it leaves and the tuple it returns
after_instantiate(self, state) ==
  [ self |-> [self EXCEPT !.pool_address = Some(state.pool_address),
                          !.x_address = Some(state.x_address),
                          !.y_address = Some(state.y_address)],
    out |-> <<state>> ]

\* after_swap, reporting the price the component keeps in last_price_sqrt
after_swap_last_price(self, now, swap_state, input_bucket) ==
  [ self |-> [self EXCEPT !.oracle = observe(self.oracle, now, self.last_price_sqrt)],
    out |-> <<swap_state, input_bucket>> ]

after_swap(self, now, swap_state, input_bucket) ==
  [ self |-> [self EXCEPT !.oracle = observe(self.oracle, now, swap_state.price_sqrt)],
    out |-> <<swap_state, input_bucket>> ]

after_swap_ok(self, now, swap_state) == observe_ok(self.oracle, now, swap_state.price_sqrt)

\* ------------------------------------------------------------ state machine
VARIABLES
  now,               \* the clock: the current Instant
  oracle,            \* the Oracle object
  ret,               \* the last call, what it returned, what it left if it panicked
  grid,              \* the schedule of this run (see Grid)
  \* history, written by the calls and read only by the properties
  stored_log,        \* every observation handed to insert_observation, in order
  new_minute_calls,  \* observe calls made in another minute than the call before
  call_minutes,      \* the minutes of the observe calls made, in order
  first_instant,     \* the instant of the first observe call (0 before it)
  in_force,          \* the open minute: <<second-offset, price in force from it on>>
  closed,            \* in_force of the minute closed last
  at_tick,           \* the oracle as it was when the clock reached `now`
  observes_here,     \* observe calls made at the instant `now`
  \* the hook component around the oracle
  hook,              \* the fields of TestOracle other than `oracle`
  hook_ret           \* the last call of a hook method: caller, arguments, outcome

hist == <<stored_log, new_minute_calls, call_minutes, first_instant, in_force, closed, at_tick,
          observes_here>>
hook_vars == <<hook, hook_ret>>
vars == <<now, oracle, ret, grid, hist, hook_vars>>

NoCall == [op |-> "none", arg |-> 0, out |-> None, fin |-> None, mem |-> None]

NoHookCall == [method |-> "none", proof |-> FALSE, args |-> <<>>, rejected |-> FALSE,
               out |-> None]

\* a run's schedule: the second-offsets the clock visits in every minute, the
\* last minute it reaches, the observe calls it may make (Budget of them in
\* all, or one per instant when Budget is 0), the timestamps it asks
\* observation for and the prices it reports
Grid(offsets, last_minute, budget, targets, prices) ==
  [offsets |-> offsets, last_minute |-> last_minute, budget |-> budget, targets |-> targets,
   prices |-> prices, intervals |-> {}]

\* the vectors of intervals asked of observation_intervals: the empty vector,
\* one pair of timestamps out of E, or two pairs of which the second starts
\* where the first ends
IntervalLists(E) ==
  {<<>>} \cup {<<p>> : p \in E \X E}
         \cup {<< <<a, m>>, <<m, b>> >> : a \in E, m \in E, b \in E}

OnGrid(t) == seconds_marginal(t) \in grid.offsets /\ minutes(t) <= grid.last_minute

MayObserve(made, here) == IF grid.budget > 0 THEN made < grid.budget ELSE here < 1

\* a newly instantiated oracle of one of the capacities `limits`, at some
\* instant of minute 0
InitOf(g, limits) ==
  /\ grid = g
  /\ now \in g.offsets
  /\ \E limit \in limits : oracle = Oracle_new(limit)
  /\ ret = NoCall
  /\ stored_log = <<>>
  /\ new_minute_calls = 0
  /\ call_minutes = <<>>
  /\ first_instant = 0
  /\ in_force = <<>>
  /\ closed = <<>>
  /\ at_tick = oracle
  /\ observes_here = 0
  /\ hook = TestOracle_fields
  /\ hook_ret = NoHookCall

\* timestamps asked of observation: the start of every even minute and the
\* inside of every odd minute
MinuteTargets(ms) == {m * 60 + (m % 2) * 37 : m \in ms}

\* a newly instantiated oracle, at some instant of minute 0
InitWith(g) == InitOf(g, 1..MaxLimit)

Init ==
  InitWith(Grid(SecondOffsets, MaxFineMinute, MaxFineObserves,
                MinuteTargets(0..(MaxFineMinute + 1)), Prices))
InitRing ==
  InitWith(Grid({30}, MaxMinute, 0, MinuteTargets(0..(MaxMinute + 1)), Prices))

InitIntervals ==
  InitWith([Grid({30}, MaxIntervalMinute, 0, MinuteTargets(0..(MaxIntervalMinute + 1)),
                 Prices)
              EXCEPT !.intervals = IntervalLists(IntervalEnds)])
InitFault ==
  InitWith([Grid({10, 40}, MaxFaultMinute, 0, MinuteTargets(0..(MaxFaultMinute + 1)),
                 FaultPrices)
              EXCEPT !.intervals = IntervalLists({97, 180})])

\* the component as instantiate leaves it
InitHook ==
  InitOf([Grid({10, 40}, MaxHookMinute, 0, MinuteTargets({1, MaxHookMinute}), Prices)
            EXCEPT !.intervals = {<< <<60, 120>> >>}],
         {OBSERVATIONS_LIMIT})

\* a ring of SearchLimit slots under one price, one instant per minute
InitSearch ==
  InitOf(Grid({30}, MaxSearchMinute, 0, MinuteTargets(0..(MaxSearchMinute + 1)), {250}),
         {SearchLimit})

\* a ring of WideLimit slots after n stored observations: observe(price_sqrt)
\* was called at second 30 of every minute 0..n, and the clock has reached
\* second 30 of minute n + 1
WideObservation(j, price_sqrt) == AccumulatedObservation(j, j * FloorLn(price_sqrt))

WideOracle(limit, n, price_sqrt) ==
  [ observations |->
      [k \in 0..(limit - 1) |-> WideObservation(n - ((n - 1 - k) % limit), price_sqrt)],
    observations_stored |-> limit,
    last_observation_index |-> Some((n - 1) % limit),
    sub_observations |-> Some([ last_updated |-> n * 60 + 30,
                                initialization |-> None,
                                price_sqrt_sum |-> price_sqrt * 30,
                                price_sqrt_last |-> price_sqrt ]),
    observations_limit |-> limit ]

InitAfter(limit, n, price_sqrt) ==
  /\ grid = Grid({30}, n + WideMinutes, 0,
                 MinuteTargets({n - limit, n - limit + 1, n - limit + 2, n - (limit \div 2),
                                n - 1, n, n + 1, n + WideMinutes + 1}),
                 Prices)
  /\ now = (n + 1) * 60 + 30
  /\ oracle = WideOracle(limit, n, price_sqrt)
  /\ ret = NoCall
  /\ stored_log = [j \in 1..n |-> WideObservation(j, price_sqrt)]
  /\ new_minute_calls = n
  /\ call_minutes = [i \in 1..(n + 1) |-> i - 1]
  /\ first_instant = 30
  /\ in_force = << <<0, price_sqrt>>, <<30, price_sqrt>> >>
  /\ closed = << <<0, price_sqrt>>, <<30, price_sqrt>> >>
  /\ at_tick = oracle
  /\ observes_here = 0
  /\ hook = TestOracle_fields
  /\ hook_ret = NoHookCall

\* the ring has wrapped: its oldest observation is in slot 0, in the middle
\* slot or in the last slot
InitWide ==
  \E rotation \in {0, WideLimit \div 2, WideLimit - 1}, price_sqrt \in Prices :
    InitAfter(WideLimit, WideLimit + rotation, price_sqrt)

\* the clock advances to the next instant it visits
Tick ==
  /\ \E t \in (now + 1)..(now + 60) :
       /\ OnGrid(t)
       /\ \A u \in (now + 1)..(t - 1) : ~OnGrid(u)
       /\ now' = t
  /\ ret' = NoCall
  /\ at_tick' = oracle
  /\ observes_here' = 0
  /\ UNCHANGED <<oracle, grid, stored_log, new_minute_calls, call_minutes, first_instant,
                 in_force, closed, hook>>
  /\ hook_ret' = NoHookCall

\* what a successful observe(price_sqrt) call adds to the history
Record(price_sqrt) ==
  LET first == call_minutes = <<>>
      other_minute == call_minutes /= <<>>
                      /\ call_minutes[Len(call_minutes)] /= minutes(now)
      before(e) == e[1] < seconds_marginal(now)
      opened == IF first
                THEN <<>>
                ELSE IF other_minute
                THEN << <<0, in_force[Len(in_force)][2]>> >>
                ELSE in_force
  IN /\ stored_log' = IF observe_crosses(oracle, now)
                      THEN Append(stored_log, create_observation(oracle, now))
                      ELSE stored_log
     /\ new_minute_calls' = IF other_minute
                            THEN new_minute_calls + 1
                            ELSE new_minute_calls
     /\ call_minutes' = Append(call_minutes, minutes(now))
     /\ first_instant' = IF first THEN now ELSE first_instant
     /\ in_force' = Append(SelectSeq(opened, before),
                           <<seconds_marginal(now), price_sqrt>>)
     /\ closed' = IF other_minute THEN in_force ELSE closed
     /\ observes_here' = observes_here + 1
     /\ UNCHANGED at_tick

\* the pool reports the price after a swap; a panic aborts the transaction:
\* the component keeps the oracle it had, and ret.mem records the fields of
\* the Oracle value as the panicking call left them
Observed(price_sqrt) ==
  [op |-> "observe", arg |-> price_sqrt,
   out |-> IF observe_crosses(oracle, now)
           THEN Some(create_observation(oracle, now))
           ELSE None,
   fin |-> IF observe_crosses(oracle, now)
           THEN Some(finalize_value(Unwrap(oracle.sub_observations)))
           ELSE None,
   mem |-> None]

ObservePanicked(price_sqrt) ==
  [op |-> "observe_panic", arg |-> price_sqrt, out |-> None, fin |-> None,
   mem |-> Some(observe_unwound(oracle, now, price_sqrt))]

Observe ==
  /\ MayObserve(Len(call_minutes), observes_here)
  /\ \E price_sqrt \in grid.prices :
       IF observe_ok(oracle, now, price_sqrt)
       THEN /\ oracle' = observe(oracle, now, price_sqrt)
            /\ ret' = Observed(price_sqrt)
            /\ Record(price_sqrt)
       ELSE /\ ret' = ObservePanicked(price_sqrt)
            /\ UNCHANGED <<oracle, hist>>
  /\ UNCHANGED <<now, grid, hook_vars>>

\* a consumer asks for the observation at a timestamp in seconds
Observation ==
  /\ \E seconds \in grid.targets :
       /\ ret' = [op |-> "observation", arg |-> seconds,
                  out |-> observation(oracle, now, seconds), fin |-> None, mem |-> None]
       /\ oracle' = observation_state(oracle, now, seconds)
  /\ UNCHANGED <<now, grid, hist, hook_vars>>

\* a consumer asks for the averages over a vector of intervals; a query
\* changes nothing, so the vectors are asked of the states that a tick or an
\* observe has left
ObservationIntervals ==
  /\ ret.op \notin {"observation", "observation_intervals"}
  /\ \E intervals_in_seconds \in grid.intervals :
       /\ ret' = [op |-> "observation_intervals", arg |-> intervals_in_seconds,
                  out |-> observation_intervals(oracle, now, intervals_in_seconds),
                  fin |-> None, mem |-> None]
       /\ oracle' = observation_intervals_state(oracle, now, intervals_in_seconds)
  /\ UNCHANGED <<now, grid, hist, hook_vars>>

\* a consumer reads a counter of the oracle; as the interval queries, the
\* getters are asked of the states that a tick or an observe has left
Getter ==
  /\ ret.op \notin {"observation", "observation_intervals", "getter"}
  /\ \E method \in Getters :
       /\ ret' = [op |-> "getter", arg |-> method,
                  out |-> Some(Oracle_getter(oracle, method)), fin |-> None, mem |-> None]
       /\ oracle' = Oracle_getter_state(oracle, method)
  /\ UNCHANGED <<now, grid, hist, hook_vars>>

\* the TestOracle component: its fields are those of `hook` and the oracle
Self == [oracle |-> oracle] @@ hook
HookFields(self) == [f \in DOMAIN hook |-> self[f]]

\* a call of a hook method by a caller who shows the badge or does not
HookCall(method, has_proof, args, out) ==
  [method |-> method, proof |-> has_proof, args |-> args,
   rejected |-> ~authorized(method, has_proof), out |-> out]

\* the arguments the pool hands over (of AfterInstantiateState and
\* AfterSwapState, the fields the hook reads and two it only passes on)
InstantiateStates ==
  {[pool_address |-> "pool", price_sqrt |-> p, x_address |-> "x", y_address |-> "y"] :
     p \in {None} \cup {Some(q) : q \in grid.prices}}
SwapStates ==
  {[pool_address |-> "pool", price_sqrt |-> p, input_address |-> "x", input_amount |-> 7] :
     p \in grid.prices}
Buckets == {[resource_address |-> "y", amount |-> n] : n \in {1, 7}}

AfterInstantiate ==
  /\ \E has_proof \in BOOLEAN, state \in InstantiateStates :
       IF authorized("after_instantiate", has_proof)
       THEN LET r == after_instantiate(Self, state)
            IN /\ oracle' = r.self.oracle
               /\ hook' = HookFields(r.self)
               /\ hook_ret' = HookCall("after_instantiate", has_proof, <<state>>, Some(r.out))
       ELSE /\ hook_ret' = HookCall("after_instantiate", has_proof, <<state>>, None)
            /\ UNCHANGED <<oracle, hook>>
  /\ UNCHANGED <<now, ret, grid, hist>>

AfterSwap ==
  /\ MayObserve(Len(call_minutes), observes_here)
  /\ \E has_proof \in BOOLEAN, swap_state \in SwapStates, input_bucket \in Buckets :
       IF authorized("after_swap", has_proof) /\ after_swap_ok(Self, now, swap_state)
       THEN LET r == after_swap(Self, now, swap_state, input_bucket)
            IN /\ oracle' = r.self.oracle
               /\ hook' = HookFields(r.self)
               /\ hook_ret' = HookCall("after_swap", has_proof, <<swap_state, input_bucket>>,
                                       Some(r.out))
               /\ ret' = Observed(swap_state.price_sqrt)
               /\ Record(swap_state.price_sqrt)
       ELSE /\ hook_ret' = HookCall("after_swap", has_proof, <<swap_state, input_bucket>>,
                                    None)
            /\ ret' = IF authorized("after_swap", has_proof)
                      THEN ObservePanicked(swap_state.price_sqrt)
                      ELSE NoCall
            /\ UNCHANGED <<oracle, hook, hist>>
  /\ UNCHANGED <<now, grid>>

\* the getters of the component
HookGetters == {"get_calls", "observations_limit", "observations_stored",
                "last_observation_index"}
getter(self, method) ==
  CASE method = "get_calls" -> self.calls
    [] method = "observations_limit" -> self.oracle.observations_limit
    [] method = "observations_stored" -> self.oracle.observations_stored
    [] method = "last_observation_index" -> self.oracle.last_observation_index

\* the methods that read: the two queries and the getters
HookRead ==
  /\ hook_ret.method \notin HookGetters \cup {"observation", "observation_intervals"}
  /\ \E has_proof \in BOOLEAN :
       \/ \E seconds \in grid.targets :
            /\ hook_ret' = HookCall("observation", has_proof, <<seconds>>,
                                    IF authorized("observation", has_proof)
                                    THEN observation(Self.oracle, now, seconds)
                                    ELSE None)
            /\ oracle' = IF authorized("observation", has_proof)
                         THEN observation_state(Self.oracle, now, seconds)
                         ELSE oracle
       \/ \E intervals_in_seconds \in grid.intervals :
            /\ hook_ret' = HookCall("observation_intervals", has_proof,
                                    <<intervals_in_seconds>>,
                                    IF authorized("observation_intervals", has_proof)
                                    THEN observation_intervals(Self.oracle, now,
                                                               intervals_in_seconds)
                                    ELSE None)
            /\ oracle' = IF authorized("observation_intervals", has_proof)
                         THEN observation_intervals_state(Self.oracle, now,
                                                          intervals_in_seconds)
                         ELSE oracle
       \/ \E method \in HookGetters :
            /\ hook_ret' = HookCall(method, has_proof, <<>>,
                                    IF authorized(method, has_proof)
                                    THEN Some(getter(Self, method))
                                    ELSE None)
            /\ oracle' = oracle
  /\ UNCHANGED <<now, ret, grid, hist, hook>>

\* ingestion alone, at sub-minute instants
Next == Tick \/ Observe
Spec == Init /\ [][Next]_vars

\* ingestion and queries, one instant per minute over a longer horizon
NextQuery == Tick \/ Observe \/ Observation
SpecQuery == InitRing /\ [][NextQuery]_vars

\* ingestion and queries on a wide ring that has wrapped
SpecWide == InitWide /\ [][NextQuery]_vars

\* ingestion, point queries and interval queries
NextAll == Tick \/ Observe \/ Observation \/ ObservationIntervals
SpecIntervals == InitIntervals /\ [][NextAll]_vars

\* the same, with a pool that may report a zero price
SpecFault == InitFault /\ [][NextAll]_vars

\* every operation of the Oracle, with a pool that may report a zero price
NextRead == Tick \/ Observe \/ Observation \/ ObservationIntervals \/ Getter
SpecRead == InitFault /\ [][NextRead]_vars

\* ingestion and queries on a ring deep enough for searches of several passes
SpecSearch == InitSearch /\ [][NextQuery]_vars

\* the component's methods, called with and without a proof of the badge
NextHook == Tick \/ AfterInstantiate \/ AfterSwap \/ HookRead
SpecHook == InitHook /\ [][NextHook]_vars

TypeOK ==
  /\ now \in Nat
  /\ oracle.observations_stored \in 0..oracle.observations_limit
  /\ ret.op \in {"none", "observe", "observe_panic", "observation", "observation_intervals",
                 "getter"}

\* --------------------------------------------- reference values (history)
Max(S) == CHOOSE x \in S : \A y \in S : y <= x

\* number of observations handed to insert_observation so far
NumStored == Len(stored_log)

\* the observations the ring should still hold: the last
\* min(NumStored, observations_limit) of the log
Retained ==
  {stored_log[j] : j \in (NumStored - Min(NumStored, oracle.observations_limit) + 1)..NumStored}

\* the price in force during second s of a minute with swap record f
PriceAt(f, s) == f[Max({i \in 1..Len(f) : f[i][1] <= s})][2]

RECURSIVE SumInForce(_, _)
SumInForce(f, s) == IF s > 59 THEN 0 ELSE PriceAt(f, s) + SumInForce(f, s + 1)

\* time-weighted average of the minute with swap record f, from the first
\* second that has a price to the end of the minute
RefAverage(f) == TruncDiv(SumInForce(f, f[1][1]), 60 - f[1][1])

\* ------------------------------------------------------------------ claims

\* C1: observations_stored equals min(N, observations_limit), N being the
\* number of observe calls made in a minute different from the minute of the
\* preceding observe call; each such call stores exactly one observation, the
\* first call and same-minute calls store none.
C1_StoredCount ==
  /\ oracle.observations_stored = Min(new_minute_calls, oracle.observations_limit)
  /\ NumStored = new_minute_calls

\* a run with a first call, same-minute calls, a gap of more than one minute
\* and more new-minute calls than the ring has slots
C1_Witness ==
  /\ new_minute_calls > oracle.observations_limit
  /\ Len(call_minutes) > new_minute_calls + 1
  /\ \E i \in 2..Len(call_minutes) : call_minutes[i] > call_minutes[i - 1] + 1

\* C2: the timestamps of the stored observations, read from slot oldest_index()
\* for observations_stored consecutive slots (index modulo observations_stored),
\* are strictly increasing, before and after the ring wraps.
C2_TimestampsIncrease ==
  oracle.observations_stored > 0 =>
    LET n == oracle.observations_stored
        first == Unwrap(oldest_index(oracle))
        at(i) == oracle.observations[(first + i) % n]
    IN \A i \in 0..(n - 2) : at(i).timestamp < at(i + 1).timestamp

\* a wrapped ring whose oldest slot is not slot 0
C2_Witness ==
  /\ oracle.observations_stored >= 3
  /\ NumStored > oracle.observations_limit
  /\ oldest_index(oracle) = Some(2)

\* C3: after n >= 1 stored observations last_observation_index is
\* (n - 1) mod observations_limit, and the ring holds exactly the
\* min(n, observations_limit) most recently stored observations, the j-th
\* stored one in slot (j - 1) mod observations_limit.
C3_RingOverwrite ==
  NumStored >= 1 =>
    LET n == NumStored
        limit == oracle.observations_limit
    IN /\ oracle.last_observation_index = Some((n - 1) % limit)
       /\ DOMAIN oracle.observations = 0..(Min(n, limit) - 1)
       /\ \A j \in (n - Min(n, limit) + 1)..n :
            oracle.observations[(j - 1) % limit] = stored_log[j]
       /\ {oracle.observations[k] : k \in DOMAIN oracle.observations} = Retained

\* observations_limit + k stores with k >= 2 on a ring of at least two slots
C3_Witness ==
  /\ oracle.observations_limit >= 2
  /\ NumStored >= oracle.observations_limit + 2

\* the newest and the oldest observation the ring should hold
Newest == stored_log[NumStored]
Oldest == stored_log[NumStored - Min(NumStored, oracle.observations_limit) + 1]

\* the minute asked of the last observation call
Target == ret.arg \div 60

\* the retained observations next to a minute t strictly inside the history
Below(t) == CHOOSE l \in Retained :
              /\ l.timestamp < t
              /\ \A x \in Retained : x.timestamp < t => x.timestamp <= l.timestamp
Above(t) == CHOOSE r \in Retained :
              /\ r.timestamp > t
              /\ \A x \in Retained : x.timestamp > t => x.timestamp >= r.timestamp
Exact(t) == {x \in Retained : x.timestamp = t}

\* C4: with at least one observation stored, observation(seconds) succeeds
\* when oldest stored minute <= seconds/60 <= current minute and fails
\* otherwise; the minutes of overwritten observations are rejected.
\* (Holds under SpecQuery; under SpecWide a query inside the range panics in
\* the binary search: left + right leaves the u16 range.)
C4_RangeCheck ==
  (ret.op = "observation" /\ oracle.observations_stored > 0) =>
    (ret.out /= None <=> (Oldest.timestamp <= Target /\ Target <= minutes(now)))

\* a query for the minute of an overwritten observation, rejected
C4_Witness ==
  /\ ret.op = "observation"
  /\ NumStored > oracle.observations_limit
  /\ stored_log[1].timestamp <= Target
  /\ Target < Oldest.timestamp
  /\ ret.out = None

\* C5: for oldest stored timestamp <= target < newest stored timestamp,
\* observation returns the stored observation with that timestamp if there is
\* one, and otherwise the linear interpolation between the stored observation
\* with the greatest timestamp below and the one with the least timestamp above.
\* (Holds under SpecQuery; under SpecWide the search panics where left + right
\* leaves the u16 range, and nothing is returned.)
C5_InHistory ==
  ( /\ ret.op = "observation"
    /\ oracle.observations_stored > 0
    /\ Oldest.timestamp <= Target
    /\ Target < Newest.timestamp ) =>
    IF Exact(Target) /= {}
    THEN \E x \in Exact(Target) :
           ret.out = Some(AccumulatedObservation(Target * 60, x.price_sqrt_log_acc))
    ELSE LET l == Below(Target)
             r == Above(Target)
         IN ret.out = Some(AccumulatedObservation(Target * 60,
              l.price_sqrt_log_acc
                + TruncDiv(r.price_sqrt_log_acc - l.price_sqrt_log_acc,
                           r.timestamp - l.timestamp)
                  * (Target - l.timestamp)))

\* an interpolated answer from a wrapped ring of three whose oldest slot is
\* not slot 0
C5_Witness ==
  /\ ret.op = "observation"
  /\ ret.out /= None
  /\ oracle.observations_stored >= 3
  /\ NumStored > oracle.observations_limit
  /\ oldest_index(oracle) /= Some(0)
  /\ Oldest.timestamp < Target
  /\ Target < Newest.timestamp
  /\ Exact(Target) = {}
  /\ Below(Target).price_sqrt_log_acc /= Above(Target).price_sqrt_log_acc

\* C6: for newest stored timestamp M < T <= current minute, observation returns
\* {T, acc_M + floor_ln(A) + (T - M - 1) * floor_ln(p_last)}, A the 60-second
\* time-weighted average of the open minute and p_last the last price; for
\* T = M it returns the newest stored observation unchanged.
C6_LiveExtrapolation ==
  ( /\ ret.op = "observation"
    /\ oracle.observations_stored > 0
    /\ Newest.timestamp <= Target
    /\ Target <= minutes(now) ) =>
    IF Target = Newest.timestamp
    THEN ret.out = Some(AccumulatedObservation(Target * 60, Newest.price_sqrt_log_acc))
    ELSE ret.out = Some(AccumulatedObservation(Target * 60,
           Newest.price_sqrt_log_acc
             + FloorLn(TruncDiv(SumInForce(in_force, 0), 60))
             + (Target - Newest.timestamp - 1) * FloorLn(in_force[Len(in_force)][2])))

\* an extrapolation over several minutes from an open minute with a swap
\* inside it
C6_Witness ==
  /\ ret.op = "observation"
  /\ ret.out /= None
  /\ NumStored >= 2
  /\ Target > Newest.timestamp + 1
  /\ Len(in_force) >= 2
  /\ in_force[1][2] /= in_force[2][2]

\* C7: the observation stored by observe at minute `now` has timestamp `now`
\* and price_sqrt_log_acc = prev + floor_ln(finalized) + (n - 1) * floor_ln(last):
\* prev the newest accumulator stored before (0 if none), finalized the average
\* of the minute being closed, last the price in force at its end, n = now
\* minus the minute of the previous observe call.
C7_StoredValue ==
  (ret.op = "observe" /\ ret.out /= None) =>
    LET k == Len(call_minutes)
        n == call_minutes[k] - call_minutes[k - 1]
        prev == IF NumStored = 1 THEN 0 ELSE stored_log[NumStored - 1].price_sqrt_log_acc
        expected == AccumulatedObservation(minutes(now),
                      prev + FloorLn(RefAverage(closed))
                           + (n - 1) * FloorLn(closed[Len(closed)][2]))
    IN /\ Unwrap(ret.out) = expected
       /\ last_observation(oracle) = expected

\* a second stored observation, after a gap of minutes without swaps, closing
\* a minute that saw a swap after its start
C7_Witness ==
  /\ ret.op = "observe"
  /\ ret.out /= None
  /\ NumStored >= 2
  /\ call_minutes[Len(call_minutes)] - call_minutes[Len(call_minutes) - 1] >= 2
  /\ Len(closed) >= 2
  /\ closed[1][2] /= closed[2][2]

\* C8: the average finalize returns for a closed minute is the sum, over the
\* seconds of that minute, of the price in force during that second, divided
\* by the duration; the price in force from second s on is the last price
\* observed at second s (before the first swap of a later minute, the last
\* price of the minute before, from second 0); the duration is 60 minus the
\* second-offset of the very first observe for the first minute and 60 for
\* every later minute.
C8_FinalizedAverage ==
  (ret.op = "observe" /\ ret.fin /= None) =>
    LET start == IF NumStored = 1 THEN seconds_marginal(first_instant) ELSE 0
    IN /\ closed[1][1] = start
       /\ Unwrap(ret.fin) = TruncDiv(SumInForce(closed, start), 60 - start)

\* a later minute closed with a leaked price and swaps at two of its seconds
C8_Witness ==
  /\ ret.op = "observe"
  /\ ret.fin /= None
  /\ NumStored >= 2
  /\ Len(closed) >= 3
  /\ closed[1][2] /= closed[2][2]
  /\ closed[2][2] /= closed[3][2]

\* C9: several observe calls at the same instant leave the oracle in the state
\* a single observe of the last price at that instant leaves it in.
C9_SameInstantReplay ==
  observes_here >= 1 =>
    oracle = observe(at_tick, now, in_force[Len(in_force)][2])

\* two calls at second 0 of a new minute
C9_Witness ==
  /\ observes_here >= 2
  /\ observe_crosses(at_tick, now)
  /\ seconds_marginal(now) = 0

\* C10: whenever observation(t) succeeds, the returned timestamp is
\* (t / 60) * 60.
C10_WholeMinute ==
  (ret.op = "observation" /\ ret.out /= None) =>
    Unwrap(ret.out).timestamp = (ret.arg \div 60) * 60

\* an interpolated answer to a timestamp inside a minute
C10_Witness ==
  /\ ret.op = "observation"
  /\ ret.out /= None
  /\ ret.arg % 60 /= 0
  /\ Target < Newest.timestamp
  /\ Exact(Target) = {}

\* C11: observations_stored never exceeds observations_limit, and it is 0
\* exactly when last_observation_index is None.
C11_CountAndIndex ==
  /\ oracle.observations_stored <= oracle.observations_limit
  /\ oracle.observations_stored = 0 <=> oracle.last_observation_index = None

\* a ring of at least two slots that has wrapped back to slot 0
C11_Witness ==
  /\ oracle.observations_limit >= 2
  /\ NumStored > oracle.observations_limit
  /\ oracle.observations_stored = oracle.observations_limit
  /\ oracle.last_observation_index = Some(0)

\* the step is a call that failed
FailedCall ==
  \/ ret'.op = "observe_panic"
  \/ ret'.op \in {"observation", "observation_intervals"} /\ ret'.out = None

\* C12: an operation (observe, observation, observation_intervals) that fails
\* leaves the oracle exactly as it was before the call: it aborts before it
\* mutates any field of the Oracle or of its SubObservations.
C12_FailureLeavesState ==
  [][FailedCall =>
       /\ oracle' = oracle
       /\ ret'.mem /= None => Unwrap(ret'.mem) = oracle]_vars

\* C13: while observations_stored is 0, every call of observation and of
\* observation_intervals fails, for every argument, also after observe calls
\* that all fall in the first minute.
C13_NothingStoredFails ==
  ( /\ ret.op \in {"observation", "observation_intervals"}
    /\ oracle.observations_stored = 0 ) =>
    ret.out = None

\* C13 as amended: ... for every timestamp, and for every vector of at least
\* one interval (the empty vector is answered with the empty vector).
C13_NothingStoredFailsNonEmpty ==
  ( /\ ret.op \in {"observation", "observation_intervals"}
    /\ oracle.observations_stored = 0 ) =>
    IF ret.op = "observation_intervals" /\ ret.arg = <<>>
    THEN ret.out = Some(<<>>)
    ELSE ret.out = None

\* a well-formed vector of two intervals, asked after an observe in the first
\* minute and failing
C13_Witness ==
  /\ ret.op = "observation_intervals"
  /\ Len(ret.arg) = 2
  /\ \A i \in 1..2 : ret.arg[i][1] \div 60 < ret.arg[i][2] \div 60
  /\ oracle.sub_observations /= None
  /\ oracle.observations_stored = 0
  /\ ret.arg[2][2] \div 60 <= minutes(now)
  /\ ret.out = None

\* C14: observation_intervals fails as a whole if any pair (a, b) of its input
\* has a/60 >= b/60, also when earlier pairs of the same call are valid.
C14_EmptyIntervalFails ==
  ( /\ ret.op = "observation_intervals"
    /\ \E i \in DOMAIN ret.arg : ret.arg[i][1] \div 60 >= ret.arg[i][2] \div 60 ) =>
    ret.out = None

\* a first interval the oracle can answer, followed by one whose left bound is
\* later than its right bound
C14_Witness ==
  /\ ret.op = "observation_intervals"
  /\ Len(ret.arg) = 2
  /\ interval_ok(oracle, now, ret.arg[1][1], ret.arg[1][2])
  /\ ret.arg[2][1] \div 60 > ret.arg[2][2] \div 60
  /\ ret.out = None

\* the accumulator observation returns for the minute of a timestamp
AccAt(seconds) == Unwrap(observation(oracle, now, seconds)).price_sqrt_log_acc

\* C15: when observation_intervals succeeds, the result has one entry per input
\* pair, in input order, and the entry for (a, b) has start = (a/60)*60,
\* end = (b/60)*60 and price_sqrt = exp((y_r - y_l) / (b/60 - a/60)), y_l and
\* y_r being the accumulators observation returns for a and b in that state.
C15_IntervalEntries ==
  (ret.op = "observation_intervals" /\ ret.out /= None) =>
    LET v == Unwrap(ret.out)
    IN /\ Len(v) = Len(ret.arg)
       /\ \A i \in 1..Len(ret.arg) :
            LET a == ret.arg[i][1]
                b == ret.arg[i][2]
            IN /\ v[i].start = (a \div 60) * 60
               /\ v[i].end = (b \div 60) * 60
               /\ v[i].price_sqrt =
                    Exp(TruncDiv(AccAt(b) - AccAt(a), (b \div 60) - (a \div 60)))

\* two intervals answered with different averages, the first asked from a
\* timestamp inside a minute
C15_Witness ==
  /\ ret.op = "observation_intervals"
  /\ ret.out /= None
  /\ Len(ret.arg) = 2
  /\ ret.arg[1][1] % 60 /= 0
  /\ Unwrap(ret.out)[1].price_sqrt /= Unwrap(ret.out)[2].price_sqrt

\* the minutes a < m < b (as timestamps in seconds) that observation answers
\* in this state
Splits ==
  LET M == {k * 60 : k \in 0..(grid.last_minute + 1)}
  IN {t \in M \X M \X M :
        /\ t[1] < t[2] /\ t[2] < t[3]
        /\ \A i \in 1..3 : observation(oracle, now, t[i]) /= None}

\* the exponent geometric_mean takes for the interval (x, y), times its length
\* in minutes: (y - x) * ln(gm(x, y))
WeightedLog(x, y) ==
  ((y - x) \div 60) * arithmetic_mean(x \div 60, y \div 60, AccAt(x), AccAt(y))

Abs(x) == IF x >= 0 THEN x ELSE -x

\* C16: in a fixed state and for minute-aligned a < m < b within the queryable
\* range, (b - a) * ln(gm(a,b)) = (m - a) * ln(gm(a,m)) + (b - m) * ln(gm(m,b)).
C16_Additive ==
  \A t \in Splits :
    WeightedLog(t[1], t[3]) = WeightedLog(t[1], t[2]) + WeightedLog(t[2], t[3])

\* C16 as amended: each product (y - x) * ln(gm(x,y)) differs from
\* acc(y) - acc(x) by less than y - x units of the last Decimal digit (the
\* division is truncated), so the two sides differ by less than 2 * (b - a)
\* such units; the accumulator differences themselves add up exactly.
C16_AdditiveUpToTruncation ==
  \A t \in Splits :
    /\ \A i \in 1..2 : \A j \in (i + 1)..3 :
         Abs(WeightedLog(t[i], t[j]) - (AccAt(t[j]) - AccAt(t[i])))
           < (t[j] - t[i]) \div 60
    /\ Abs(WeightedLog(t[1], t[3]) - (WeightedLog(t[1], t[2]) + WeightedLog(t[2], t[3])))
         < 2 * ((t[3] - t[1]) \div 60)

\* a split over an exact, an interpolated and an extrapolated minute whose two
\* sides differ by the truncation
C16_Witness ==
  \E t \in Splits :
    /\ NumStored >= 2
    /\ Exact(t[1] \div 60) /= {}
    /\ Exact(t[2] \div 60) = {}
    /\ t[3] \div 60 > Newest.timestamp
    /\ WeightedLog(t[1], t[3]) /= WeightedLog(t[1], t[2]) + WeightedLog(t[2], t[3])

\* C17: for observe calls with positive prices, price_sqrt_log_acc is
\* non-decreasing across the stored observations read in timestamp order.
C17_AccNonDecreasing ==
  oracle.observations_stored > 0 =>
    LET n == oracle.observations_stored
        first == Unwrap(oldest_index(oracle))
        at(i) == oracle.observations[(first + i) % n]
    IN \A i \in 0..(n - 2) : at(i).price_sqrt_log_acc <= at(i + 1).price_sqrt_log_acc

\* C17 as amended: a newly stored observation's price_sqrt_log_acc is not
\* below that of the observation stored before it when the finalized average
\* of the closed minute and the last price are both at least 1 (1.00 is 100
\* units); a price below 1 has a negative logarithm and lowers it.
C17_AccNonDecreasingFromOne ==
  ( /\ ret.op = "observe"
    /\ ret.out /= None
    /\ NumStored >= 2
    /\ Unwrap(ret.fin) >= 100
    /\ closed[Len(closed)][2] >= 100 ) =>
    /\ Unwrap(ret.out).price_sqrt_log_acc >= stored_log[NumStored - 1].price_sqrt_log_acc
    /\ last_observation(oracle) = Unwrap(ret.out)

\* an observation stored above the one before it, which was itself stored
\* below its predecessor
C17_Witness ==
  /\ ret.op = "observe"
  /\ ret.out /= None
  /\ NumStored >= 3
  /\ Unwrap(ret.fin) >= 100
  /\ closed[Len(closed)][2] >= 100
  /\ Unwrap(ret.out).price_sqrt_log_acc > stored_log[NumStored - 1].price_sqrt_log_acc
  /\ stored_log[NumStored - 1].price_sqrt_log_acc < stored_log[NumStored - 2].price_sqrt_log_acc

\* C18: where sub_observations is present and at least one observation is
\* stored, sub_observations.last_updated.minutes() is equal to or greater than
\* the timestamp of the newest stored observation, never less; while nothing
\* is stored it equals the minute of the first observe call.
C18_SubObserverNotBehind ==
  oracle.sub_observations /= None =>
    LET sub == Unwrap(oracle.sub_observations)
    IN IF oracle.observations_stored > 0
       THEN minutes(sub.last_updated) >= last_observation(oracle).timestamp
       ELSE minutes(sub.last_updated) = minutes(first_instant)

\* observations stored, the first call made past minute 0, and a later swap
\* of the newest observation's minute taken in
C18_Witness ==
  /\ oracle.observations_stored > 1
  /\ minutes(first_instant) > 0
  /\ ret.op = "observe"
  /\ ret.out = None
  /\ Unwrap(oracle.sub_observations).last_updated >
       last_observation(oracle).timestamp * 60

\* nothing stored yet, after several calls in a first minute past minute 0
C18_NothingStoredYet ==
  /\ oracle.observations_stored = 0
  /\ oracle.sub_observations /= None
  /\ minutes(first_instant) > 0
  /\ Len(call_minutes) > 1

\* the situation of an oracle, "none" if it is in none of the three
Situation(o) ==
  IF o.sub_observations = None /\ o.observations_stored = 0
  THEN "Empty"
  ELSE IF /\ o.sub_observations /= None
          /\ Unwrap(o.sub_observations).initialization /= None
          /\ o.observations_stored = 0
  THEN "OpenFirstMinute"
  ELSE IF /\ o.sub_observations /= None
          /\ Unwrap(o.sub_observations).initialization = None
          /\ o.observations_stored >= 1
  THEN "OpenLaterMinute"
  ELSE "none"

\* C19: every reachable state is in exactly one of Empty, OpenFirstMinute and
\* OpenLaterMinute; the first observe moves Empty to OpenFirstMinute, the
\* first observe in a later minute moves OpenFirstMinute to OpenLaterMinute,
\* and no operation leaves OpenLaterMinute or moves back (an observe that
\* panics is a call that was not made: it is any other step here).
C19_Situations ==
  [][ LET observed == ret'.op = "observe"
          before == Situation(oracle)
          after == Situation(oracle')
      IN /\ before /= "none"
         /\ after /= "none"
         /\ before = "Empty" =>
              after = IF observed THEN "OpenFirstMinute" ELSE "Empty"
         /\ before = "OpenFirstMinute" =>
              after = IF observed /\ minutes(now) > minutes(first_instant)
                      THEN "OpenLaterMinute"
                      ELSE "OpenFirstMinute"
         /\ before = "OpenLaterMinute" => after = "OpenLaterMinute" ]_vars

\* the oracle has gone through the three situations, the last observe call
\* of the first minute was not the first call, and later calls have failed
\* and succeeded
C19_Witness ==
  /\ Situation(oracle) = "OpenLaterMinute"
  /\ oracle.observations_stored >= 2
  /\ Len(call_minutes) >= 4
  /\ call_minutes[2] = call_minutes[1]
  /\ ret.op = "observe_panic"

\* the timestamps in the slots of the ring
StoredTimestamps == {oracle.observations[k].timestamp : k \in DOMAIN oracle.observations}

\* C20: oldest_observation_timestamp returns None exactly when nothing is
\* stored; otherwise it returns 60 times the smallest timestamp among the
\* stored observations: slot oldest_index() holds the oldest retained
\* observation, whether the ring is partially filled, full or wrapped.
C20_OldestTimestamp ==
  /\ oldest_observation_timestamp(oracle) = None <=> oracle.observations_stored = 0
  /\ oracle.observations_stored > 0 =>
       /\ Unwrap(oldest_observation_timestamp(oracle)) =
            60 * (CHOOSE t \in StoredTimestamps : \A u \in StoredTimestamps : t <= u)
       /\ oracle.observations[Unwrap(oldest_index(oracle))] = Oldest
       /\ Cardinality(DOMAIN oracle.observations) = oracle.observations_stored

\* a ring of several slots that has wrapped, its oldest observation in the
\* middle of the ring and not the first one ever stored
C20_Witness ==
  /\ oracle.observations_limit >= 3
  /\ NumStored > oracle.observations_limit
  /\ Unwrap(oldest_index(oracle)) \notin {0, oracle.observations_limit - 1}
  /\ Unwrap(oldest_observation_timestamp(oracle)) > 60 * stored_log[1].timestamp

\* rings partially filled and exactly full, the oldest timestamp read from them
C20_PartialRing ==
  /\ oracle.observations_stored >= 2
  /\ oracle.observations_stored < oracle.observations_limit
  /\ oldest_observation_timestamp(oracle) = Some(60 * stored_log[1].timestamp)

C20_FullRing ==
  /\ oracle.observations_stored >= 2
  /\ NumStored = oracle.observations_limit
  /\ oldest_observation_timestamp(oracle) = Some(60 * stored_log[1].timestamp)

\* C21: for every observations_limit up to 65535 and every reachable state no
\* u16 computation leaves the u16 range: observations_stored + 1 and
\* last_observation_index + 1 in insert_observation, index + 1 in
\* oldest_index, left + observations_stored - 1 and left + right in
\* binary_search_and_interpolation (as observation runs it for a target
\* inside the stored history).
C21_U16InRange ==
  /\ insert_observation_ok(oracle)
  /\ oracle.last_observation_index /= None =>
       Unwrap(oracle.last_observation_index) + 1 <= U16Max
  /\ ( /\ ret.op = "observation"
       /\ oracle.observations_stored >= 2
       /\ Oldest.timestamp <= Target
       /\ Target < Newest.timestamp ) =>
       binary_search_and_interpolation_ok(oracle.observations,
                                          Unwrap(oldest_index(oracle)),
                                          oracle.observations_stored,
                                          Target)

\* C22: after_swap and after_instantiate are rejected when called without a
\* proof of the hook_admin badge and succeed with it; the oracle (and the rest
\* of the component) changes only through a call authorised by the badge;
\* observation, observation_intervals, observations_limit,
\* observations_stored and last_observation_index are callable by anyone.
C22_BadgeGuardsWrites ==
  [][ /\ hook_ret'.method \in {"after_swap", "after_instantiate"} =>
           /\ hook_ret'.rejected <=> ~hook_ret'.proof
           /\ hook_ret'.proof => hook_ret'.out /= None
      /\ hook_ret'.method \in {"observation", "observation_intervals", "observations_limit",
                                "observations_stored", "last_observation_index"} =>
           ~hook_ret'.rejected
      /\ (oracle' /= oracle \/ hook' /= hook) =>
           /\ hook_ret'.method \in {"after_swap", "after_instantiate"}
           /\ hook_ret'.proof
           /\ ~hook_ret'.rejected ]_vars

\* an after_swap call without the badge, rejected, on a component that calls
\* with the badge have changed before
C22_Witness ==
  /\ hook_ret.method = "after_swap"
  /\ ~hook_ret.proof
  /\ hook_ret.rejected
  /\ oracle.observations_stored >= 1
  /\ hook.pool_address /= None

\* a query and a getter answered to callers without the badge
C22_AnyoneReads ==
  /\ hook_ret.method \in {"observation", "observations_stored"}
  /\ ~hook_ret.proof
  /\ hook_ret.out /= None
  /\ oracle.observations_stored >= 1

\* C23: after_swap returns the swap state and the input bucket it received
\* unchanged and its only effect is one observe(swap_state.price_sqrt);
\* after_instantiate returns the state it received unchanged and performs
\* no observe.
C23_HookPassesThrough ==
  [][ /\ (hook_ret'.method = "after_swap" /\ ~hook_ret'.rejected) =>
           /\ hook_ret'.out = Some(hook_ret'.args)
           /\ oracle' = observe(oracle, now, hook_ret'.args[1].price_sqrt)
           /\ hook' = hook
      /\ (hook_ret'.method = "after_instantiate" /\ ~hook_ret'.rejected) =>
           /\ hook_ret'.out = Some(hook_ret'.args)
           /\ oracle' = oracle ]_vars

\* an after_swap call that stored an observation, handed a bucket of another
\* amount and resource than the swap state names
C23_Witness ==
  /\ hook_ret.method = "after_swap"
  /\ ~hook_ret.rejected
  /\ ret.out /= None
  /\ oracle.observations_stored >= 2
  /\ hook_ret.args[2].amount /= hook_ret.args[1].input_amount
  /\ hook_ret.args[2].resource_address /= hook_ret.args[1].input_address
  /\ hook_ret.out = Some(hook_ret.args)

\* an after_instantiate call answered, before and after which nothing is stored
C23_InstantiateAnswered ==
  /\ hook_ret.method = "after_instantiate"
  /\ ~hook_ret.rejected
  /\ hook_ret.out = Some(hook_ret.args)
  /\ oracle.sub_observations = None

\* C24: an observe call that is the first ever, or that falls in the minute
\* of the sub-observer's last_updated, leaves observations,
\* last_observation_index and observations_stored unchanged; only the
\* sub-observer (price_sqrt_sum, price_sqrt_last, last_updated) changes.
C24_NothingStored ==
  [][ ( /\ Len(call_minutes') = Len(call_minutes) + 1
        /\ \/ oracle.sub_observations = None
           \/ minutes(now) = minutes(Unwrap(oracle.sub_observations).last_updated) ) =>
      /\ oracle'.observations = oracle.observations
      /\ oracle'.last_observation_index = oracle.last_observation_index
      /\ oracle'.observations_stored = oracle.observations_stored
      /\ oracle'.observations_limit = oracle.observations_limit
      /\ oracle'.sub_observations /= None
      /\ oracle.sub_observations /= None =>
           Unwrap(oracle'.sub_observations).initialization =
             Unwrap(oracle.sub_observations).initialization ]_vars

\* an observe call in the minute of the one before, on an oracle that holds
\* observations: the sub-observer has taken the swap in, the ring is as it was
C24_Witness ==
  /\ ret.op = "observe"
  /\ ret.out = None
  /\ oracle.observations_stored >= 1
  /\ Len(call_minutes) >= 3
  /\ call_minutes[Len(call_minutes)] = call_minutes[Len(call_minutes) - 1]
  /\ Unwrap(oracle.sub_observations).price_sqrt_sum > 0
  /\ oracle.observations = at_tick.observations

\* C25: insert_observation writes exactly one slot, index 0 when nothing is
\* stored and (last_observation_index + 1) mod observations_limit otherwise,
\* and leaves every other slot unchanged; a stored observation keeps its
\* content until the ring wraps onto its slot, at the observations_limit-th
\* insertion after its own; no other step writes a slot.
C25_OneSlotWritten ==
  [][ LET limit == oracle.observations_limit
          slot == IF oracle.observations_stored = 0
                  THEN 0
                  ELSE (Unwrap(oracle.last_observation_index) + 1) % limit
      IN IF Len(stored_log') = Len(stored_log) + 1
         THEN /\ DOMAIN oracle'.observations = DOMAIN oracle.observations \cup {slot}
              /\ oracle'.observations[slot] = stored_log'[Len(stored_log')]
              /\ \A k \in DOMAIN oracle.observations \ {slot} :
                   oracle'.observations[k] = oracle.observations[k]
              /\ \A j \in 1..Len(stored_log') :
                   LET further == Len(stored_log') - j
                   IN IF further < limit
                      THEN oracle'.observations[(j - 1) % limit] = stored_log'[j]
                      ELSE oracle'.observations[(j - 1) % limit] /= stored_log'[j]
         ELSE oracle'.observations = oracle.observations ]_vars

\* an insertion into a ring of several slots that has wrapped: it overwrote a
\* slot other than slot 0 and the slots around it kept what they held
C25_Witness ==
  /\ ret.op = "observe"
  /\ ret.out /= None
  /\ oracle.observations_limit >= 3
  /\ NumStored > oracle.observations_limit
  /\ Unwrap(oracle.last_observation_index) = 1
  /\ oracle.observations[1] = Newest
  /\ oracle.observations[0] = at_tick.observations[0]
  /\ oracle.observations[1] /= at_tick.observations[1]
  /\ oracle.observations[2] = at_tick.observations[2]

\* the passes of the search observation runs for second `seconds`
SearchPasses(seconds) ==
  binary_search_passes(oracle.observations, oracle.observations_stored,
                       Unwrap(oldest_index(oracle)),
                       Unwrap(oldest_index(oracle)) + oracle.observations_stored - 1,
                       seconds \div 60, oracle.observations_stored)

\* the targets the search is run for: at or after the oldest stored
\* timestamp and before the newest
SearchTargets ==
  {seconds \in grid.targets :
     /\ oracle.observations_stored >= 2
     /\ Oldest.timestamp <= seconds \div 60
     /\ seconds \div 60 < Newest.timestamp}

\* C26: binary_search_and_interpolation terminates for every reachable ring
\* (any oldest_index, wrapped or not, observations_stored >= 2) and every
\* target with oldest timestamp <= target < newest timestamp: right - left
\* shrinks on every pass that does not return, and the mid == left exit is
\* taken exactly when left and right are adjacent.
C26_SearchTerminates ==
  \A seconds \in SearchTargets :
    LET run == SearchPasses(seconds)
    IN /\ run[Len(run)].exit \in {"found", "adjacent"}
       /\ \A i \in 1..(Len(run) - 1) :
            /\ run[i].exit = "none"
            /\ run[i + 1].right - run[i + 1].left < run[i].right - run[i].left
       /\ \A i \in 1..Len(run) :
            /\ run[i].right - run[i].left >= 1
            /\ run[i].exit = "adjacent" => run[i].right - run[i].left = 1
            /\ run[i].right - run[i].left = 1 => run[i].exit /= "none"

\* a wrapped ring searched in three passes down to two adjacent slots that
\* lie across the end of the ring, and searched for a stored minute too
C26_Witness ==
  /\ NumStored > oracle.observations_limit
  /\ \E seconds \in SearchTargets :
       LET run == SearchPasses(seconds)
       IN /\ Len(run) >= 3
          /\ run[Len(run)].exit = "adjacent"
          /\ run[Len(run)].left % oracle.observations_stored >
               run[Len(run)].right % oracle.observations_stored
  /\ \E seconds \in SearchTargets :
       LET run == SearchPasses(seconds)
       IN Len(run) >= 2 /\ run[Len(run)].exit = "found"

\* C27: finalize sets last_updated to the start of the current minute, sets
\* price_sqrt_sum to 0, clears initialization and leaves price_sqrt_last
\* unchanged, so that the price of the closed minute is in force in the new
\* minute from second 0 until the next swap: the observe that closed the
\* minute at second s leaves the sum s times that price.
C27_FinalizeResets ==
  [][ Len(stored_log') = Len(stored_log) + 1 =>
        LET before == Unwrap(oracle.sub_observations)
            finalized == Unwrap(create_observation_state(oracle, now).sub_observations)
            after == Unwrap(oracle'.sub_observations)
        IN /\ finalized.last_updated = minutes(now) * 60
           /\ finalized.price_sqrt_sum = 0
           /\ finalized.initialization = None
           /\ finalized.price_sqrt_last = before.price_sqrt_last
           /\ after.initialization = None
           /\ after.last_updated = now
           /\ after.price_sqrt_sum = before.price_sqrt_last * seconds_marginal(now)
           /\ seconds_marginal(now) > 0 => PriceAt(in_force', 0) = before.price_sqrt_last ]_vars

\* a first minute closed by a swap at a later second of the next minute, at
\* a new price: the old price has been counted from second 0
C27_Witness ==
  /\ ret.op = "observe"
  /\ ret.out /= None
  /\ NumStored = 1
  /\ seconds_marginal(now) > 0
  /\ seconds_marginal(first_instant) > 0
  /\ Unwrap(oracle.sub_observations).initialization = None
  /\ Unwrap(oracle.sub_observations).price_sqrt_last /= closed[Len(closed)][2]
  /\ Unwrap(oracle.sub_observations).price_sqrt_sum =
       closed[Len(closed)][2] * seconds_marginal(now)

\* the sub-observer that an observe call made now hands to new_subobservation
SubAtCall ==
  IF oracle.sub_observations = None
  THEN SubObservations_new(now)
  ELSE IF observe_crosses(oracle, now)
  THEN Unwrap(create_observation_state(oracle, now).sub_observations)
  ELSE Unwrap(oracle.sub_observations)

\* C28: at every call of new_subobservation made by observe under a
\* non-decreasing clock the current instant is in the minute of last_updated
\* and its second-offset is not smaller, so the unsigned difference of the
\* offsets does not underflow; after a minute rollover last_updated has
\* second-offset 0.
C28_DeltaNotNegative ==
  [][ Len(call_minutes') = Len(call_minutes) + 1 =>
        /\ minutes(now) = minutes(SubAtCall.last_updated)
        /\ seconds_marginal(now) >= seconds_marginal(SubAtCall.last_updated)
        /\ new_subobservation_ok(SubAtCall, now)
        /\ observe_crosses(oracle, now) => seconds_marginal(SubAtCall.last_updated) = 0 ]_vars

\* a swap early in a minute, after a minute whose last swap came at a later
\* second-offset
C28_Witness ==
  /\ ret.op = "observe"
  /\ ret.out /= None
  /\ NumStored >= 2
  /\ seconds_marginal(now) > 0
  /\ closed[Len(closed)][1] > seconds_marginal(now)
  /\ Unwrap(oracle.sub_observations).last_updated = now

\* C29: at every call of accumulated_log made by the public operations under
\* a non-decreasing clock, minutes_since_last >= 1, so minutes_since_last - 1
\* does not underflow: in create_observation, which an observe call made now
\* enters when observe_crosses holds, and in the live-extrapolation branch of
\* observation_internal, entered for a target after the newest observation.
C29_MinutesSinceLast ==
  /\ observe_crosses(oracle, now) =>
       time_in_minutes(now) - minutes(Unwrap(oracle.sub_observations).last_updated) >= 1
  /\ ( /\ ret.op = "observation"
       /\ oracle.observations_stored > 0
       /\ Target <= time_in_minutes(now)
       /\ Target > last_observation(oracle).timestamp ) =>
       Target - last_observation(oracle).timestamp >= 1

\* a live extrapolation, answered, from an observation that was itself
\* stored after a minute without swaps
C29_Witness ==
  /\ ret.op = "observation"
  /\ ret.out /= None
  /\ NumStored >= 1
  /\ Target > last_observation(oracle).timestamp
  /\ Newest.timestamp - minutes(first_instant) >= 2

\* a live extrapolation over two minutes, answered
C29_LiveOverTwoMinutes ==
  /\ ret.op = "observation"
  /\ ret.out /= None
  /\ oracle.observations_stored >= 1
  /\ Target - last_observation(oracle).timestamp >= 2

\* C30: the assertion of finalize_preview (initialization is None) cannot
\* fail through the public operations: whenever observation_internal reaches
\* the live-extrapolation branch (something is stored, the target is after
\* the newest observation and not after the current minute) the
\* sub-observer's initialization has been cleared.
C30_PreviewAssertionHolds ==
  ( /\ ret.op = "observation"
    /\ oracle.observations_stored > 0
    /\ Target <= time_in_minutes(now)
    /\ Target > last_observation(oracle).timestamp ) =>
    /\ oracle.sub_observations /= None
    /\ finalize_preview_ok(Unwrap(oracle.sub_observations))

\* a live extrapolation answered from the first stored observation, the
\* swap that closed the first minute being the last one made
C30_Witness ==
  /\ ret.op = "observation"
  /\ ret.out /= None
  /\ NumStored = 1
  /\ Len(call_minutes) = 2
  /\ Target > last_observation(oracle).timestamp
  /\ seconds_marginal(first_instant) > 0


\* C31: the engine has no terminal or stuck state: in every reachable state of
\* an oracle with observations_limit >= 1, observe(p) with p > 0, called at an
\* instant not earlier than the previous observe call, succeeds.
C31_NoStuckState ==
  oracle.observations_limit >= 1 =>
    \A price_sqrt \in {p \in grid.prices : p > 0} :
      (call_minutes /= <<>> => now >= Unwrap(oracle.sub_observations).last_updated) =>
        observe_ok(oracle, now, price_sqrt)


\* a step that is a call of one of the reading operations
ReadCall == ret'.op \in {"observation", "observation_intervals", "getter"}

\* C32: observation, observation_intervals, observations_limit,
\* observations_stored, last_observation_index and
\* oldest_observation_timestamp leave every field of the oracle unchanged,
\* whether they succeed or fail; in particular live extrapolation previews the
\* open minute without finalising or resetting the sub-observer.
C32_ReadsLeaveOracle ==
  [][ReadCall => oracle' = oracle]_vars

\* a live extrapolation answered from an open minute whose sum is under way
C32_Witness ==
  /\ ret.op = "observation"
  /\ ret.out /= None
  /\ Target > Newest.timestamp
  /\ Unwrap(oracle.sub_observations).price_sqrt_sum > 0
  /\ seconds_marginal(Unwrap(oracle.sub_observations).last_updated) > 0

\* a live extrapolation that failed (the open minute averages to zero)
C32_FailedPreview ==
  /\ ret.op = "observation"
  /\ ret.out = None
  /\ oracle.observations_stored > 0
  /\ Target > Newest.timestamp
  /\ Target <= minutes(now)

\* an interval query answered, and each of the getters
C32_IntervalsAnswered ==
  /\ ret.op = "observation_intervals"
  /\ ret.out /= None
  /\ Len(ret.arg) = 1
C32_GetterAnswered ==
  /\ ret.op = "getter"
  /\ ret.arg = "oldest_observation_timestamp"
  /\ ret.out /= Some(None)


\* C33: in every reachable state the populated slot keys are exactly
\* 0 .. observations_stored - 1; while observations_stored < observations_limit
\* the newest index is observations_stored - 1, so oldest_index() is 0 until
\* the ring is full; once full, oldest_index() is
\* (last_observation_index + 1) mod observations_limit. Hence the modulus by
\* observations_stored never selects an unwritten slot.
C33_RingShape ==
  /\ DOMAIN oracle.observations = 0..(oracle.observations_stored - 1)
  /\ ( /\ oracle.observations_stored >= 1
       /\ oracle.observations_stored < oracle.observations_limit ) =>
       /\ oracle.last_observation_index = Some(oracle.observations_stored - 1)
       /\ oldest_index(oracle) = Some(0)
  /\ ( /\ oracle.observations_stored >= 1
       /\ oracle.observations_stored = oracle.observations_limit ) =>
       oldest_index(oracle) =
         Some((Unwrap(oracle.last_observation_index) + 1) % oracle.observations_limit)
  /\ oracle.observations_stored >= 1 =>
       Unwrap(oldest_index(oracle)) \in DOMAIN oracle.observations

\* a ring filled in part: two of three slots written
C33_Witness ==
  /\ oracle.observations_limit = 3
  /\ oracle.observations_stored = 2
  /\ oracle.last_observation_index = Some(1)

\* a full ring in the middle of a rotation: the oldest slot is not slot 0
C33_Rotated ==
  /\ oracle.observations_limit = 3
  /\ oracle.observations_stored = 3
  /\ oracle.last_observation_index = Some(1)
  /\ NumStored = 5
  /\ oldest_index(oracle) = Some(2)


\* C34: live extrapolation agrees with storage: if observation is queried for
\* the current minute T (T later than the newest stored timestamp) and observe
\* is then called at any instant of minute T with no observe in between, the
\* observation stored by that observe has timestamp T and the
\* price_sqrt_log_acc of the extrapolated result.
C34_ExtrapolationIsStored ==
  ( /\ ret.op = "observation"
    /\ ret.out /= None
    /\ Target = minutes(now)
    /\ Target > Newest.timestamp ) =>
    \A t \in now..(Target * 60 + 59), price_sqrt \in grid.prices :
      observe_ok(oracle, t, price_sqrt) =>
        /\ observe_crosses(oracle, t)
        /\ create_observation(oracle, t) =
             AccumulatedObservation(Target, Unwrap(ret.out).price_sqrt_log_acc)
        /\ last_observation(observe(oracle, t, price_sqrt)) =
             AccumulatedObservation(Target, Unwrap(ret.out).price_sqrt_log_acc)

\* the current minute extrapolated over a gap, from an open minute that saw a
\* second swap at another price, and an observe that can follow
C34_Witness ==
  /\ ret.op = "observation"
  /\ ret.out /= None
  /\ Target = minutes(now)
  /\ Target > Newest.timestamp + 1
  /\ Unwrap(oracle.sub_observations).price_sqrt_sum
       /= Unwrap(oracle.sub_observations).price_sqrt_last
            * seconds_marginal(Unwrap(oracle.sub_observations).last_updated)
  /\ \E price_sqrt \in grid.prices : observe_ok(oracle, now, price_sqrt)


\* the accumulator observation answers at timestamp `seconds` (None: it fails)
Answer(o, t, seconds) ==
  IF observation(o, t, seconds) = None
  THEN None
  ELSE Some(Unwrap(observation(o, t, seconds)).price_sqrt_log_acc)

\* the step is an observe call that succeeded
ObserveCall == ret'.op = "observe"

\* C35: answers for a past minute are stable: if observation(60*t) succeeds
\* and returns accumulator v, then after any further observe calls every later
\* successful observation(60*t) returns the same v; in particular a value first
\* obtained by live extrapolation equals the value later obtained by exact
\* lookup or by interpolation once newer observations have been stored.
C35_AnswersStable ==
  [][ObserveCall =>
       \A seconds \in grid.targets :
         ( /\ Answer(oracle, now, seconds) /= None
           /\ Answer(oracle', now, seconds) /= None ) =>
           Answer(oracle', now, seconds) = Answer(oracle, now, seconds)]_vars

\* C35, amended: answers within the stored history are stable: an answer for a
\* minute not later than the newest stored timestamp is the answer of every
\* later successful call; a live extrapolation for minute t is the value found
\* by exact lookup when the next observe call falls in minute t.
C35_AnswersStableInHistory ==
  [][ObserveCall =>
       \A seconds \in grid.targets :
         ( /\ Answer(oracle, now, seconds) /= None
           /\ Answer(oracle', now, seconds) /= None
           /\ \/ seconds \div 60 <= last_observation(oracle).timestamp
              \/ seconds \div 60 = minutes(now) ) =>
           Answer(oracle', now, seconds) = Answer(oracle, now, seconds)]_vars

\* an observe call has stored an observation in a ring that had wrapped, and a
\* minute between two stored timestamps is answered by interpolation before
\* the call and after it
C35_Witness ==
  /\ ret.op = "observe"
  /\ ret.out /= None
  /\ NumStored > oracle.observations_limit
  /\ \E seconds \in grid.targets :
       /\ Answer(at_tick, now, seconds) /= None
       /\ Answer(oracle, now, seconds) /= None
       /\ seconds \div 60 < last_observation(at_tick).timestamp
       /\ \A k \in DOMAIN oracle.observations :
            oracle.observations[k].timestamp /= seconds \div 60

\* an observe call has stored the minute that was extrapolated over a gap
\* before it
C35_ExtrapolatedThenStored ==
  /\ ret.op = "observe"
  /\ ret.out /= None
  /\ at_tick.observations_stored >= 1
  /\ minutes(now) > last_observation(at_tick).timestamp + 1
  /\ \E seconds \in grid.targets :
       /\ seconds \div 60 = minutes(now)
       /\ Answer(at_tick, now, seconds) /= None
       /\ Answer(oracle, now, seconds) = Answer(at_tick, now, seconds)


\* C36: the observation stored by a minute-crossing observe(p) does not depend
\* on p: two runs that are identical except for the price passed to that call
\* store identical observations in that call (the observation is built from
\* the closed minute's average and the previous price_sqrt_last before p is
\* fed to the sub-observer); p reaches only the sub-observer, and through it
\* the observations stored by later calls.
C36_StoredIgnoresPrice ==
  [][(ret'.op = "observe" /\ ret'.out /= None) =>
       \A price_sqrt \in grid.prices :
         LET other == observe(oracle, now, price_sqrt)
         IN /\ observe_ok(oracle, now, price_sqrt)
            /\ other.observations = oracle'.observations
            /\ other.last_observation_index = oracle'.last_observation_index
            /\ other.observations_stored = oracle'.observations_stored
            /\ last_observation(other) = Unwrap(ret'.out)
            /\ Unwrap(other.sub_observations).price_sqrt_last = price_sqrt
            /\ Unwrap(oracle'.sub_observations).price_sqrt_last = ret'.arg]_vars

\* a second observation stored by a call whose price differs from the price
\* in force at the end of the minute it closes
C36_Witness ==
  /\ ret.op = "observe"
  /\ ret.out /= None
  /\ NumStored >= 2
  /\ closed[Len(closed)][2] /= ret.arg
  /\ Unwrap(oracle.sub_observations).price_sqrt_last = ret.arg

====
